---- MODULE Spec2Model ----
(***************************************************************************)
(* Sealing / unsealing / PoSt drivers of filecoin-proofs (src/filecoin-    *)
(* proofs/src/safe.rs) as a state machine.                                 *)
(*                                                                         *)
(* The drivers are modelled from safe.rs.  The collaborators they call     *)
(* (storage_proofs, sector_base, the parameter cache, FileCleanup, the     *)
(* post_adapter) are modelled from the specification, at a reduced scale:  *)
(* a field element is Fr32Len bytes wide instead of 32, a sector holds     *)
(* SectorNodes nodes, one partition proof is SINGLE_PARTITION_PROOF_LEN    *)
(* symbols long.  Bytes keep their width (0..255).                         *)
(***************************************************************************)
EXTENDS Integers, Sequences, FiniteSets, TLC

(***************************************************************************)
(* Scale of the model.                                                     *)
(***************************************************************************)
\* Length of FrSafe (31 in the source): the bytes that never overflow the field.
FrSafeLen == 1
\* Nodes per sector.
SectorNodes == 2
\* Symbols of one partition's proof (192 bytes in the source).
SINGLE_PARTITION_PROOF_LEN == 2
\* Longest list generate_post / verify_post is given.
MaxParts == 3
\* Sectors per PoSt batch (the PoSt sector-count class of the config).
PostSectorsCount == 2

\* Length of Fr32Ary (32 in the source): FrSafe plus the most significant byte.
Fr32Len == FrSafeLen + 1

\* The field modulus, scaled: as for BLS12-381's scalar field its most
\* significant byte is 0x73 and it is odd, so that it lies strictly between
\* 2^(8*Fr32Len - 2) and 2^(8*Fr32Len - 1).
FrModulus == 115 * (256 ^ FrSafeLen) + 1

Min(a, b) == IF a <= b THEN a ELSE b

(***************************************************************************)
(* Results: Ok(v), Err, and a panic (the call aborts by unwinding).        *)
(***************************************************************************)
Ok(v) == [kind |-> "ok", val |-> v]
Err == [kind |-> "err", val |-> FALSE]
Panic == [kind |-> "panic", val |-> FALSE]

(***************************************************************************)
(* storage_proofs::fr32: little-endian bytes <-> field elements.           *)
(***************************************************************************)
RECURSIVE le_value(_)
le_value(b) == IF b = <<>> THEN 0 ELSE Head(b) + 256 * le_value(Tail(b))

\* Err unless the bytes canonically represent a field element.
bytes_into_fr(b) == IF le_value(b) < FrModulus THEN Ok(le_value(b)) ELSE Err

fr_into_bytes(fr) == [i \in 1..Fr32Len |-> (fr \div (256 ^ (i - 1))) % 256]

\* PedersenDomain::try_from_bytes: the same canonicity test.
try_from_bytes(b) == bytes_into_fr(b)

(***************************************************************************)
(* The hash (Pedersen in the source): an abstract digest into the field.   *)
(***************************************************************************)
RECURSIVE hash_fold(_, _)
hash_fold(h, s) ==
    IF s = <<>> THEN h
    ELSE hash_fold((h * 131 + Head(s) + 1) % FrModulus, Tail(s))

pedersen(tag, s) == hash_fold(tag, s)

\* porep::replica_id: a pure function of (prover_id, sector_id), both Fr32Ary.
replica_id(prover_id, sector_id) == pedersen(11, prover_id \o sector_id)

\* Merkle root over a sector's nodes (each a field element).
merkle_root(nodes) == pedersen(23, nodes)

(***************************************************************************)
(* sector_base::io::fr32: every node carries 8*Fr32Len - 2 data bits       *)
(* followed by two zero bits.                                              *)
(***************************************************************************)
BitsPerNode == 8 * Fr32Len
DataBits == BitsPerNode - 2
PaddedBytes == SectorNodes * Fr32Len
UnpaddedCapacity == (SectorNodes * DataBits) \div 8

\* Bit j (from 0) of a byte string; 0 past its end.
bit_at(bytes, j) ==
    IF j \div 8 < Len(bytes) THEN (bytes[(j \div 8) + 1] \div (2 ^ (j % 8))) % 2 ELSE 0

padded_bit(raw, j) ==
    IF j % BitsPerNode < DataBits
    THEN bit_at(raw, (j \div BitsPerNode) * DataBits + (j % BitsPerNode))
    ELSE 0

unpadded_bit(padded, i) ==
    bit_at(padded, (i \div DataBits) * BitsPerNode + (i % DataBits))

padded_byte(raw, k) ==
    padded_bit(raw, 8 * k) + 2 * padded_bit(raw, 8 * k + 1)
    + 4 * padded_bit(raw, 8 * k + 2) + 8 * padded_bit(raw, 8 * k + 3)
    + 16 * padded_bit(raw, 8 * k + 4) + 32 * padded_bit(raw, 8 * k + 5)
    + 64 * padded_bit(raw, 8 * k + 6) + 128 * padded_bit(raw, 8 * k + 7)

unpadded_byte(padded, k) ==
    unpadded_bit(padded, 8 * k) + 2 * unpadded_bit(padded, 8 * k + 1)
    + 4 * unpadded_bit(padded, 8 * k + 2) + 8 * unpadded_bit(padded, 8 * k + 3)
    + 16 * unpadded_bit(padded, 8 * k + 4) + 32 * unpadded_bit(padded, 8 * k + 5)
    + 64 * unpadded_bit(padded, 8 * k + 6) + 128 * unpadded_bit(padded, 8 * k + 7)

padded_len(n) == (8 * n + 2 * ((8 * n) \div DataBits) + 7) \div 8

\* SectorManager::write_and_preprocess: the padded form of the written bytes.
write_and_preprocess(raw) == [k \in 1..padded_len(Len(raw)) |-> padded_byte(raw, k - 1)]

\* write_unpadded(source, target, offset, len): the unpadded bytes
\* [offset, offset + len) of the padded source, as far as the source has them.
unpadded_available(padded) == (((8 * Len(padded)) \div BitsPerNode) * DataBits) \div 8

write_unpadded(padded, offset, num_bytes) ==
    LET n == IF offset >= unpadded_available(padded) THEN 0
             ELSE Min(num_bytes, unpadded_available(padded) - offset)
    IN  [k \in 1..n |-> unpadded_byte(padded, offset + k - 1)]

(***************************************************************************)
(* ZigZagDrgPoRep: layered encoding.  A node's key hashes the replica id   *)
(* with its already-encoded parent; the second layer runs in the opposite  *)
(* direction.  Decoding recomputes each key from the encoded parent.       *)
(***************************************************************************)
node_bytes(data, i) == SubSeq(data, (i - 1) * Fr32Len + 1, i * Fr32Len)

\* The sector's nodes as field elements; Err if the buffer has the wrong
\* length or a node is not canonical.
data_nodes(data) ==
    IF Len(data) # PaddedBytes THEN Err
    ELSE IF \E i \in 1..SectorNodes : bytes_into_fr(node_bytes(data, i)).kind = "err"
    THEN Err
    ELSE Ok([i \in 1..SectorNodes |-> bytes_into_fr(node_bytes(data, i)).val])

RECURSIVE nodes_bytes(_)
nodes_bytes(nodes) ==
    IF nodes = <<>> THEN <<>> ELSE fr_into_bytes(Head(nodes)) \o nodes_bytes(Tail(nodes))

reversed(s) == [i \in 1..Len(s) |-> s[Len(s) + 1 - i]]

node_key(rid, parent) == pedersen(37, <<rid, parent>>)

encode_forward(rid, d) ==
    LET e[i \in 1..Len(d)] ==
            (d[i] + node_key(rid, IF i = 1 THEN 0 ELSE e[i - 1])) % FrModulus
    IN  [i \in 1..Len(d) |-> e[i]]

decode_forward(rid, e) ==
    [i \in 1..Len(e) |->
        (e[i] + FrModulus - node_key(rid, IF i = 1 THEN 0 ELSE e[i - 1])) % FrModulus]

encode_layer(rid, d, forward) ==
    IF forward THEN encode_forward(rid, d) ELSE reversed(encode_forward(rid, reversed(d)))

decode_layer(rid, e, forward) ==
    IF forward THEN decode_forward(rid, e) ELSE reversed(decode_forward(rid, reversed(e)))

\* ZigZagDrgPoRep::replicate on the mapped buffer: the replica, tau and the
\* per-layer commitments; Err when the buffer is not a sector of field elements.
replicate(rid, data) ==
    LET d == data_nodes(data) IN
    IF d.kind = "err" THEN Err
    ELSE LET l1 == encode_layer(rid, d.val, TRUE)
             l2 == encode_layer(rid, l1, FALSE)
         IN  Ok([replica |-> nodes_bytes(l2),
                 half |-> nodes_bytes(l1),
                 comm_d |-> merkle_root(d.val),
                 comm_r |-> merkle_root(l2),
                 comm_r_star |-> pedersen(53, <<rid, merkle_root(l1), merkle_root(l2)>>)])

\* ZigZagDrgPoRep::extract_all: the inverse of replicate.
extract_all(rid, data) ==
    LET e == data_nodes(data) IN
    IF e.kind = "err" THEN Err
    ELSE Ok(nodes_bytes(decode_layer(rid, decode_layer(rid, e.val, FALSE), TRUE)))

(***************************************************************************)
(* Configuration (sector_base::api): the sector size is fixed by the       *)
(* scale; a config carries the partition count of its proof.               *)
(***************************************************************************)
PoRepPartitionsSet == {1, 2}
PoStPartitionsSet == {1, 2}
PoRepConfigs == {[partitions |-> p] : p \in PoRepPartitionsSet}
PoStConfigs == {[partitions |-> p] : p \in PoStPartitionsSet}

\* PoRepProofPartitions::from(config), PoStProofPartitions::from(config).
PoRepProofPartitions(porep_config) == porep_config.partitions
PoStProofPartitions(post_config) == post_config.partitions

\* crate::constants::POREP_MINIMUM_CHALLENGES, scaled.
POREP_MINIMUM_CHALLENGES == 2

(***************************************************************************)
(* The compound proof orchestrator (storage_proofs::compound_proof).       *)
(* A proof blob is a string of symbols; a symbol of an honest proof names  *)
(* the protocol, the partition and the statement (the public inputs) it    *)
(* attests.  NoPartitions stands for `partitions: None`.                   *)
(***************************************************************************)
NoPartitions == 0

partition_count(partitions) == IF partitions = NoPartitions THEN 1 ELSE partitions

\* crate::parameters::setup_params: enough challenges per partition for the
\* partitions together to meet the minimum.
setup_params(partitions) ==
    [challenges |-> (POREP_MINIMUM_CHALLENGES + partitions - 1) \div partitions]

\* CompoundProof::setup.
compound_setup(vanilla_params, partitions) ==
    [vanilla_params |-> vanilla_params, partitions |-> partitions]

Symbol(proto, k, stmt) == [proto |-> proto, k |-> k, stmt |-> stmt]
Junk == Symbol("junk", 0, <<>>)

\* CompoundProof::prove followed by MultiProof::write: partition_count
\* sub-proofs of SINGLE_PARTITION_PROOF_LEN symbols each, no length prefix.
\* An unsound backend (or mismatched cached parameters) yields sub-proofs that
\* attest nothing.
compound_prove(public_params, proto, stmt, sound) ==
    [j \in 1..(partition_count(public_params.partitions) * SINGLE_PARTITION_PROOF_LEN) |->
        IF sound
        THEN Symbol(proto, ((j - 1) \div SINGLE_PARTITION_PROOF_LEN) + 1, stmt)
        ELSE Junk]

\* MultiProof::new_from_reader(Some(partitions), bytes, vk): exactly
\* `partitions` sub-proofs of fixed length; a blob of any other length is
\* structurally malformed.
new_from_reader(partitions, bytes) ==
    IF Len(bytes) # partitions * SINGLE_PARTITION_PROOF_LEN THEN Err
    ELSE Ok([k \in 1..partitions |->
                SubSeq(bytes, (k - 1) * SINGLE_PARTITION_PROOF_LEN + 1,
                       k * SINGLE_PARTITION_PROOF_LEN)])

\* ProofScheme::satisfies_requirements for the layered PoRep.
satisfies_requirements(public_params, minimum_challenges, partitions) ==
    public_params.vanilla_params.challenges * partitions >= minimum_challenges

sub_proof_valid(sub, proto, k, stmt) ==
    \A j \in 1..Len(sub) :
        /\ sub[j].proto = proto
        /\ sub[j].k = k
        /\ sub[j].stmt = stmt

\* CompoundProof::verify: the requirements, then every sub-proof against the
\* statement re-derived from the public inputs.
compound_verify(public_params, proto, stmt, multi_proof, minimum_challenges) ==
    /\ satisfies_requirements(public_params, minimum_challenges, Len(multi_proof))
    /\ \A k \in 1..Len(multi_proof) : sub_proof_valid(multi_proof[k], proto, k, stmt)

(***************************************************************************)
(* safe.rs helpers.                                                        *)
(***************************************************************************)
\* pad_safe_fr: res[0..31] = unpadded, the last byte stays zero.
pad_safe_fr(unpadded) == [i \in 1..Fr32Len |-> IF i <= FrSafeLen THEN unpadded[i] ELSE 0]

\* commitment_from_fr: the bytes of fr_into_bytes, copied into a Commitment.
commitment_from_fr(fr) == [i \in 1..Fr32Len |-> fr_into_bytes(fr)[i]]

\* The public inputs of a layered PoRep statement, as the verifier sees them.
porep_statement(rid, comm_r, comm_d, comm_r_star) == <<rid, comm_r, comm_d, comm_r_star>>

Outcome(res, reached) == [kind |-> res.kind, val |-> res.val, reached |-> reached]

(***************************************************************************)
(* verify_seal (safe.rs 203-265).  env.setup and env.vk say whether        *)
(* ZigZagCompound::setup and get_zigzag_verifying_key succeed.             *)
(***************************************************************************)
\* Lines 217-219: bytes_into_fr::<Bls12>(&comm)?.
verify_seal_commitment_reduced(comm) == Ok(le_value(comm) % FrModulus)

verify_seal_commitment(comm) == bytes_into_fr(comm)

\* Lines 236-244: each commitment goes into the public inputs in its own role.
verify_seal_public_inputs_swapped(rid, comm_r, comm_d, comm_r_star) ==
    porep_statement(rid, comm_d, comm_r, comm_r_star)

verify_seal_public_inputs(rid, comm_r, comm_d, comm_r_star) ==
    porep_statement(rid, comm_r, comm_d, comm_r_star)

\* Lines 256-264: ChallengeRequirements { minimum_challenges: POREP_MINIMUM_CHALLENGES }.
verify_seal_requirements == POREP_MINIMUM_CHALLENGES

verify_seal(porep_config, comm_r, comm_d, comm_r_star, prover_id_in, sector_id_in, proof_vec, env) ==
    LET prover_id == pad_safe_fr(prover_id_in)
        sector_id == pad_safe_fr(sector_id_in)
        rid == replica_id(prover_id, sector_id)
        r == verify_seal_commitment(comm_r)
        d == verify_seal_commitment(comm_d)
        s == verify_seal_commitment(comm_r_star)
        partitions == PoRepProofPartitions(porep_config)
        public_params == compound_setup(setup_params(partitions), partitions)
        proof == new_from_reader(partitions, proof_vec)
    IN  IF r.kind = "err" \/ d.kind = "err" \/ s.kind = "err" THEN Outcome(Err, "fr")
        ELSE IF ~env.setup THEN Outcome(Err, "setup")
        ELSE IF ~env.vk THEN Outcome(Err, "vk")
        ELSE IF proof.kind = "err" THEN Outcome(Err, "reader")
        ELSE Outcome(Ok(compound_verify(public_params, "zigzag",
                            verify_seal_public_inputs(rid, r.val, d.val, s.val),
                            proof.val, verify_seal_requirements)),
                     "verify")

VerifyEnvs == [setup : BOOLEAN, vk : BOOLEAN]
GoodEnv == [setup |-> TRUE, vk |-> TRUE]

(***************************************************************************)
(* Inputs.                                                                 *)
(***************************************************************************)
ProverIds == {[i \in 1..FrSafeLen |-> 2], [i \in 1..FrSafeLen |-> 7]}
SectorIds == {[i \in 1..FrSafeLen |-> 0]}

\* Bytes a client wrote to the staged sector: filling the unpadded capacity
\* (two contents) and one byte short of it.
WrittenSet ==
    { [i \in 1..UnpaddedCapacity |-> 255],
      [i \in 1..UnpaddedCapacity |-> (37 * i + 128) % 256],
      [i \in 1..(UnpaddedCapacity - 1) |-> (91 * i) % 256] }

\* Staged files that no write_and_preprocess produced: one byte longer than a
\* sector, and a sector whose nodes are not field elements.
RawLong == [i \in 1..(PaddedBytes + 1) |-> 1]
RawBad == [i \in 1..PaddedBytes |-> 255]

File(bytes) == [exists |-> TRUE, bytes |-> bytes]
NoFile == [exists |-> FALSE, bytes |-> <<>>]

StagedInputs ==
    {[known |-> TRUE, w |-> w, file |-> File(write_and_preprocess(w))] : w \in WrittenSet}
    \cup {[known |-> FALSE, w |-> <<>>, file |-> File(RawLong)],
          [known |-> FALSE, w |-> <<>>, file |-> File(RawBad)],
          [known |-> FALSE, w |-> <<>>, file |-> NoFile]}

SealCalls == {1}
InPath(c) == <<"staged", c>>
OutPath(c) == <<"sealed", c>>
Paths == {InPath(c) : c \in SealCalls} \cup {OutPath(c) : c \in SealCalls}

(***************************************************************************)
(* State.                                                                  *)
(***************************************************************************)
VARIABLES
    files,      \* the sector store: path -> file
    written,    \* per seal call: the bytes written to its staged file, if known
    seal,       \* per seal call: position and locals of seal()
    client      \* the call of a pure driver in flight, with its result

vars == <<files, written, seal, client>>

NoTau == [comm_d |-> 0, comm_r |-> 0, comm_r_star |-> 0]
NoOutput == [comm_r |-> <<>>, comm_r_star |-> <<>>, comm_d |-> <<>>, proof |-> <<>>]
NoVerdict == [kind |-> "none", val |-> FALSE, reached |-> "none"]

IdleSeal ==
    [pc |-> "idle", porep_config |-> [partitions |-> 1],
     prover_id |-> <<>>, sector_id |-> <<>>,
     success |-> FALSE, stage |-> "none", tau |-> NoTau, proof |-> <<>>,
     verdict |-> NoVerdict, outcome |-> "none", output |-> NoOutput]

IdleClient == [op |-> "idle"]

Init ==
    /\ \E st \in [SealCalls -> StagedInputs] :
        /\ files = [p \in Paths |->
                        IF p[1] = "staged" THEN st[p[2]].file ELSE NoFile]
        /\ written = [c \in SealCalls |-> [known |-> st[c].known, w |-> st[c].w]]
    /\ seal = [c \in SealCalls |-> IdleSeal]
    /\ client = IdleClient

(***************************************************************************)
(* seal (safe.rs 97-199), one action per step of the call.  Every exit,    *)
(* by Err, by panic or by Ok, drops `cleanup`: FileCleanup removes the     *)
(* file at out_path unless cleanup.success was set.                        *)
(***************************************************************************)
\* FileCleanup::drop.
file_cleanup_drop(fs, path, success) ==
    IF success THEN fs ELSE [fs EXCEPT ![path] = NoFile]

\* The call ends: the outcome is recorded and the locals are dropped.
seal_exit(c, s, fs, outcome) ==
    /\ seal' = [seal EXCEPT ![c] = [s EXCEPT !.pc = "done", !.outcome = outcome]]
    /\ files' = file_cleanup_drop(fs, OutPath(c), s.success)

seal_goto(c, s, pc, stage) ==
    seal' = [seal EXCEPT ![c] = [s EXCEPT !.pc = pc, !.stage = stage]]

\* Line 113 with a file that is only ever extended, never cut.
set_len_extending_only(bytes, n) ==
    [i \in 1..(IF Len(bytes) > n THEN Len(bytes) ELSE n) |->
        IF i <= Len(bytes) THEN bytes[i] ELSE 0]

\* set_len(sector_bytes): the file is cut or extended with zero bytes.
set_len(bytes, n) == [i \in 1..n |-> IF i <= Len(bytes) THEN bytes[i] ELSE 0]

\* Lines 104-106: the call starts and `cleanup` is created.
SealStart(c) ==
    /\ client.op = "idle"
    /\ seal[c].pc = "idle"
    /\ \E cfg \in PoRepConfigs, pid \in ProverIds, sid \in SectorIds :
        seal' = [seal EXCEPT ![c] = [IdleSeal EXCEPT !.pc = "copy", !.porep_config = cfg,
                                        !.prover_id = pid, !.sector_id = sid,
                                        !.success = FALSE]]
    /\ UNCHANGED <<files, written, client>>

\* Lines 109-113: copy(in_path, out_path)?, open(out_path)?, set_len(sector_bytes)?.
SealCopy(c) ==
    /\ client.op = "idle"
    /\ seal[c].pc = "copy"
    /\ \E io \in {"ok", "copy", "open", "set_len"} :
        LET src == files[InPath(c)]
            copied == [files EXCEPT ![OutPath(c)] = File(src.bytes)]
            sized == [files EXCEPT ![OutPath(c)] = File(set_len(src.bytes, PaddedBytes))]
        IN  IF io = "copy" \/ ~src.exists THEN seal_exit(c, seal[c], files, "err")
            ELSE IF io \in {"open", "set_len"} THEN seal_exit(c, seal[c], copied, "err")
            ELSE seal_goto(c, seal[c], "map", "copy") /\ files' = sized
    /\ UNCHANGED <<written, client>>

\* Line 115: MmapOptions::new().map_mut(&f_data).unwrap().
SealMap(c) ==
    /\ client.op = "idle"
    /\ seal[c].pc = "map"
    /\ \E ok \in BOOLEAN :
        IF ok THEN seal_goto(c, seal[c], "setup", "map") /\ UNCHANGED files
        ELSE seal_exit(c, seal[c], files, "panic")
    /\ UNCHANGED <<written, client>>

\* Lines 117-132: the replica id and ZigZagCompound::setup(...)?.
SealSetup(c) ==
    /\ client.op = "idle"
    /\ seal[c].pc = "setup"
    /\ \E ok \in BOOLEAN :
        IF ok THEN seal_goto(c, seal[c], "replicate", "setup") /\ UNCHANGED files
        ELSE seal_exit(c, seal[c], files, "err")
    /\ UNCHANGED <<written, client>>

seal_replica_id(s) == replica_id(pad_safe_fr(s.prover_id), pad_safe_fr(s.sector_id))

\* Lines 134-143 with cleanup.success set before replicate has succeeded.
SealReplicateMarkedEarly(c) ==
    /\ client.op = "idle"
    /\ seal[c].pc = "replicate"
    /\ \E layer_ok \in BOOLEAN :
        LET rep == replicate(seal_replica_id(seal[c]), files[OutPath(c)].bytes)
            s == [seal[c] EXCEPT !.success = TRUE]
        IN
        IF rep.kind = "err" THEN seal_exit(c, s, files, "err")
        ELSE IF ~layer_ok
        THEN seal_exit(c, s, [files EXCEPT ![OutPath(c)] = File(rep.val.half)], "err")
        ELSE /\ seal_goto(c, [s EXCEPT !.tau = [comm_d |-> rep.val.comm_d,
                                                comm_r |-> rep.val.comm_r,
                                                comm_r_star |-> rep.val.comm_r_star]],
                          "flush", "replicate")
             /\ files' = [files EXCEPT ![OutPath(c)] = File(rep.val.replica)]
    /\ UNCHANGED <<written, client>>

\* Lines 134-139: ZigZagDrgPoRep::replicate(..., &mut data, None)? on the
\* mapped output file.  A failing layer leaves the buffer half encoded.
SealReplicate(c) ==
    /\ client.op = "idle"
    /\ seal[c].pc = "replicate"
    /\ \E layer_ok \in BOOLEAN :
        LET rep == replicate(seal_replica_id(seal[c]), files[OutPath(c)].bytes) IN
        IF rep.kind = "err" THEN seal_exit(c, seal[c], files, "err")
        ELSE IF ~layer_ok
        THEN seal_exit(c, seal[c], [files EXCEPT ![OutPath(c)] = File(rep.val.half)], "err")
        ELSE /\ seal_goto(c, [seal[c] EXCEPT !.tau = [comm_d |-> rep.val.comm_d,
                                                       comm_r |-> rep.val.comm_r,
                                                       comm_r_star |-> rep.val.comm_r_star]],
                          "flush", "replicate")
             /\ files' = [files EXCEPT ![OutPath(c)] = File(rep.val.replica)]
    /\ UNCHANGED <<written, client>>

\* Lines 141-143: data.flush()?; cleanup.success = true.
SealFlush(c) ==
    /\ client.op = "idle"
    /\ seal[c].pc = "flush"
    /\ \E ok \in BOOLEAN :
        IF ok THEN seal_goto(c, [seal[c] EXCEPT !.success = TRUE], "params", "flush")
                    /\ UNCHANGED files
        ELSE seal_exit(c, seal[c], files, "err")
    /\ UNCHANGED <<written, client>>

\* Lines 145-159: the public and private inputs; get_zigzag_params(porep_config)?.
SealGetParams(c) ==
    /\ client.op = "idle"
    /\ seal[c].pc = "params"
    /\ \E ok \in BOOLEAN :
        IF ok THEN seal_goto(c, seal[c], "prove", "params") /\ UNCHANGED files
        ELSE seal_exit(c, seal[c], files, "err")
    /\ UNCHANGED <<written, client>>

\* Lines 163-174: ZigZagCompound::prove(...)?; proof.write(&mut buf)?.
SealProve(c) ==
    /\ client.op = "idle"
    /\ seal[c].pc = "prove"
    /\ \E res \in {"ok", "unsound", "prove", "write"} :
        LET s == seal[c]
            partitions == PoRepProofPartitions(s.porep_config)
            public_params == compound_setup(setup_params(partitions), partitions)
            stmt == porep_statement(seal_replica_id(s), s.tau.comm_r, s.tau.comm_d,
                                    s.tau.comm_r_star)
            buf == compound_prove(public_params, "zigzag", stmt, res = "ok")
        IN  IF res \in {"prove", "write"} THEN seal_exit(c, s, files, "err")
            ELSE seal_goto(c, [s EXCEPT !.proof = buf], "verify", "write")
                 /\ UNCHANGED files
    /\ UNCHANGED <<written, client>>

\* Lines 176-198: the commitments as bytes; verify_seal(...).expect(...);
\* Ok(SealOutput).  expect panics on Err and hands back the boolean, which
\* the statement then discards.
seal_return(c, s, verdict, output) ==
    IF verdict.kind = "err"
    THEN seal_exit(c, [s EXCEPT !.verdict = verdict], files, "panic")
    ELSE seal_exit(c, [s EXCEPT !.verdict = verdict, !.stage = "verify",
                                !.output = output], files, "ok")

SealVerify(c) ==
    /\ client.op = "idle"
    /\ seal[c].pc = "verify"
    /\ \E env \in VerifyEnvs :
        LET s == seal[c]
            comm_r == commitment_from_fr(s.tau.comm_r)
            comm_d == commitment_from_fr(s.tau.comm_d)
            comm_r_star == commitment_from_fr(s.tau.comm_r_star)
            verdict == verify_seal(s.porep_config, comm_r, comm_d, comm_r_star,
                                   s.prover_id, s.sector_id, s.proof, env)
        IN  seal_return(c, s, verdict,
                        [comm_r |-> comm_r, comm_r_star |-> comm_r_star,
                         comm_d |-> comm_d, proof |-> s.proof])
    /\ UNCHANGED <<written, client>>

SealStep(c) ==
    \/ SealStart(c)
    \/ SealCopy(c)
    \/ SealMap(c)
    \/ SealSetup(c)
    \/ SealReplicate(c)
    \/ SealFlush(c)
    \/ SealGetParams(c)
    \/ SealProve(c)
    \/ SealVerify(c)

(***************************************************************************)
(* The client: calls of the pure drivers, made once the seal calls have    *)
(* ended.  `client` holds the call in flight with its inputs and result    *)
(* until the caller takes the result.                                      *)
(***************************************************************************)
AllSealsDone == \A c \in SealCalls : seal[c].pc = "done"

\* Commitments an adversary may supply: all ones and the modulus itself (not
\* canonical), the largest field element and zero (canonical).
ModulusBytes == fr_into_bytes(FrModulus)
UntrustedCommitments ==
    { [i \in 1..Fr32Len |-> 255], ModulusBytes,
      fr_into_bytes(FrModulus - 1), [i \in 1..Fr32Len |-> 0] }

IsCanonical(b) == le_value(b) < FrModulus

\* The commitments of a seal output in their roles, rotated as in
\* tests::seal_verify_aux, two of them exchanged, or one of them replaced.
CommitmentVariants(o) ==
    { [comm_r |-> o.comm_r, comm_d |-> o.comm_d, comm_r_star |-> o.comm_r_star],
      [comm_r |-> o.comm_d, comm_d |-> o.comm_r_star, comm_r_star |-> o.comm_r],
      [comm_r |-> o.comm_d, comm_d |-> o.comm_r, comm_r_star |-> o.comm_r_star] }
    \cup {[comm_r |-> u, comm_d |-> o.comm_d, comm_r_star |-> o.comm_r_star] :
            u \in UntrustedCommitments}
    \cup {[comm_r |-> o.comm_r, comm_d |-> u, comm_r_star |-> o.comm_r_star] :
            u \in UntrustedCommitments}
    \cup {[comm_r |-> o.comm_r, comm_d |-> o.comm_d, comm_r_star |-> u] :
            u \in UntrustedCommitments}

\* A proof blob as produced, one symbol short, one symbol long, or empty.
ProofVariants(proof) ==
    { proof, SubSeq(proof, 1, Len(proof) - 1), proof \o <<Junk>>, <<>> }

\* Lines 203-265 as a call: verify_seal on the output of an ended seal call,
\* as produced or tampered with.
VerifySealCall ==
    /\ client.op = "idle"
    /\ AllSealsDone
    /\ \E c \in SealCalls :
        /\ seal[c].outcome = "ok"
        /\ \E cm \in CommitmentVariants(seal[c].output),
              proof \in ProofVariants(seal[c].output.proof),
              cfg \in PoRepConfigs, pid \in ProverIds, env \in VerifyEnvs :
            /\ (cfg # seal[c].porep_config \/ pid # seal[c].prover_id)
                    => (proof = seal[c].output.proof /\ cm.comm_r = seal[c].output.comm_r
                        /\ cm.comm_d = seal[c].output.comm_d
                        /\ cm.comm_r_star = seal[c].output.comm_r_star)
            /\ client' = [op |-> "verify_seal", c |-> c, porep_config |-> cfg,
                          comm_r |-> cm.comm_r, comm_d |-> cm.comm_d,
                          comm_r_star |-> cm.comm_r_star, prover_id |-> pid,
                          sector_id |-> seal[c].sector_id, proof |-> proof, env |-> env,
                          out |-> verify_seal(cfg, cm.comm_r, cm.comm_d, cm.comm_r_star,
                                              pid, seal[c].sector_id, proof, env)]
    /\ UNCHANGED <<files, written, seal>>

(***************************************************************************)
(* get_unsealed_range (safe.rs 272-305).  io names the storage step that   *)
(* fails, if any.  The result carries the file left at output_path.        *)
(***************************************************************************)
\* Lines 281-283: the replica id of the sector being unsealed.
unseal_replica_id_swapped(prover_id_in, sector_id_in) ==
    replica_id(pad_safe_fr(sector_id_in), pad_safe_fr(prover_id_in))

unseal_replica_id(prover_id_in, sector_id_in) ==
    replica_id(pad_safe_fr(prover_id_in), pad_safe_fr(sector_id_in))

\* f_in.take(padded bytes).read_to_end(&mut data).
take_read_to_end(bytes, limit) == SubSeq(bytes, 1, Min(Len(bytes), limit))

UnsealResult(res, output_file) == [kind |-> res.kind, val |-> res.val, output_file |-> output_file]

get_unsealed_range(porep_config, sealed_file, prover_id_in, sector_id_in, offset, num_bytes, io) ==
    LET rid == unseal_replica_id(prover_id_in, sector_id_in)
        data == take_read_to_end(sealed_file.bytes, PaddedBytes)
        unsealed == extract_all(rid, data)
        out_bytes == write_unpadded(unsealed.val, offset, num_bytes)
    IN  IF ~sealed_file.exists \/ io \in {"open", "read"} THEN UnsealResult(Err, NoFile)
        ELSE IF io = "create" THEN UnsealResult(Err, NoFile)
        ELSE IF unsealed.kind = "err" THEN UnsealResult(Err, File(<<>>))
        ELSE IF io = "write" THEN UnsealResult(Err, File(<<>>))
        ELSE UnsealResult(Ok(Len(out_bytes)), File(out_bytes))

UnsealIo == {"ok", "open", "read", "create", "write"}

GetUnsealedRangeCall ==
    /\ client.op = "idle"
    /\ AllSealsDone
    /\ \E c \in SealCalls, pid \in ProverIds, io \in UnsealIo,
          offset \in 0..UnpaddedCapacity, num_bytes \in 0..UnpaddedCapacity :
        /\ io # "ok" => (offset = 0 /\ num_bytes = UnpaddedCapacity)
        /\ client' = [op |-> "get_unsealed_range", c |-> c,
                      porep_config |-> seal[c].porep_config, prover_id |-> pid,
                      sector_id |-> seal[c].sector_id, offset |-> offset,
                      num_bytes |-> num_bytes, io |-> io,
                      out |-> get_unsealed_range(seal[c].porep_config, files[OutPath(c)],
                                                 pid, seal[c].sector_id, offset, num_bytes, io)]
    /\ UNCHANGED <<files, written, seal>>

(***************************************************************************)
(* PoSt.  crate::post_adapter spreads the dynamic list into batches of     *)
(* PostSectorsCount, the last batch filled up with its last element, and   *)
(* collects the per-batch results in order.                                *)
(***************************************************************************)
NoAccess == <<"none", 0>>

NumBatches(n) == (n + PostSectorsCount - 1) \div PostSectorsCount

spread_chunks(xs) ==
    [b \in 1..NumBatches(Len(xs)) |->
        [j \in 1..PostSectorsCount |-> xs[Min((b - 1) * PostSectorsCount + j, Len(xs))]]]

\* The faults that fall into batch b, as indices into the batch.
RECURSIVE batch_faults(_, _)
batch_faults(faults, b) ==
    IF faults = <<>> THEN <<>>
    ELSE LET f == Head(faults) - (b - 1) * PostSectorsCount IN
         (IF f >= 0 /\ f < PostSectorsCount THEN <<f>> ELSE <<>>)
         \o batch_faults(Tail(faults), b)

generate_post_spread_input(dynamic) ==
    [b \in 1..NumBatches(Len(dynamic.input_parts)) |->
        [post_config |-> dynamic.post_config,
         challenge_seed |-> dynamic.challenge_seed,
         input_parts |-> spread_chunks(dynamic.input_parts)[b]]]

verify_post_spread_input(dynamic) ==
    IF Len(dynamic.proofs) # NumBatches(Len(dynamic.comm_rs)) THEN Err
    ELSE Ok([b \in 1..NumBatches(Len(dynamic.comm_rs)) |->
                [post_config |-> dynamic.post_config,
                 comm_rs |-> spread_chunks(dynamic.comm_rs)[b],
                 challenge_seed |-> dynamic.challenge_seed,
                 proof |-> dynamic.proofs[b],
                 faults |-> batch_faults(dynamic.faults, b)]])

\* crate::parameters::post_setup_params.
post_setup_params(post_config) == [challenges |-> 1]

\* NoRequirements: nothing is asked of the challenge count.
NoRequirements == 0

\* Lines 353-358 with only the highest bit of the last byte cleared.
safe_challenge_seed_one_bit(challenge_seed) ==
    [i \in 1..Fr32Len |-> IF i = Fr32Len THEN challenge_seed[i] % 128 ELSE challenge_seed[i]]

\* Lines 353-358: cs[31] &= 0b0011_1111.
safe_challenge_seed(challenge_seed) ==
    [i \in 1..Fr32Len |-> IF i = Fr32Len THEN challenge_seed[i] % 64 ELSE challenge_seed[i]]

\* The public inputs of a VDF PoSt statement.
post_statement(seed, commitments, faults) == <<seed, commitments, faults>>

\* make_merkle_tree (lines 461-470): the tree over the sealed file, by its root.
make_merkle_tree(sealed_file, io_ok) ==
    IF ~sealed_file.exists \/ ~io_ok THEN Err
    ELSE LET nodes == data_nodes(sealed_file.bytes) IN
         IF nodes.kind = "err" THEN Err ELSE Ok(merkle_root(nodes.val))

PostResult(kind, proof, faults, proved) ==
    [kind |-> kind, proof |-> proof, faults |-> faults, proved |-> proved]

\* Lines 366-380 with a faulted part passed over instead of panicking.
post_tree_skipping_faults(access, fs, io_ok) ==
    IF access # NoAccess THEN
        LET t == make_merkle_tree(fs[access], io_ok) IN
        IF t.kind = "err" THEN Panic ELSE t
    ELSE Ok(0)

\* Lines 366-380: the tree of one input part; a part without access panics.
post_tree(access, fs, io_ok) ==
    IF access # NoAccess THEN
        LET t == make_merkle_tree(fs[access], io_ok) IN
        IF t.kind = "err" THEN Panic ELSE t
    ELSE Panic

(***************************************************************************)
(* generate_post_fixed_sectors_count (safe.rs 331-398).  env names the     *)
(* step the environment fails, if any.                                     *)
(***************************************************************************)
generate_post_fixed_sectors_count(fixed, fs, env) ==
    LET faults == <<>>
        pub_params == compound_setup(post_setup_params(fixed.post_config), NoPartitions)
        n == Len(fixed.input_parts)
        commitments == [i \in 1..n |-> try_from_bytes(fixed.input_parts[i].comm_r)]
        seed == try_from_bytes(safe_challenge_seed(fixed.challenge_seed))
        trees == [i \in 1..n |-> post_tree(fixed.input_parts[i].access, fs, env # "read")]
        stmt == post_statement(seed.val, [i \in 1..n |-> commitments[i].val], <<>>)
        sound == \A i \in 1..n : trees[i].val = commitments[i].val
        buf == compound_prove(pub_params, "vdf_post", stmt, sound)
    IN  IF env = "setup" THEN PostResult("panic", <<>>, faults, FALSE)
        ELSE IF \E i \in 1..n : commitments[i].kind = "err"
        THEN PostResult("panic", <<>>, faults, FALSE)
        ELSE IF seed.kind = "err" THEN PostResult("panic", <<>>, faults, FALSE)
        ELSE IF \E i \in 1..n : trees[i].kind = "panic"
        THEN PostResult("panic", <<>>, faults, FALSE)
        ELSE IF env = "params" THEN PostResult("err", <<>>, faults, FALSE)
        ELSE IF env = "prove" THEN PostResult("panic", <<>>, faults, TRUE)
        ELSE IF env = "write" THEN PostResult("err", <<>>, faults, TRUE)
        ELSE PostResult("ok", buf, faults, TRUE)

\* The results of the batches a driver got to: a panic ends the call.
Processed(results, b) == \A a \in 1..(b - 1) : results[a].kind # "panic"

dynamic_kind(results) ==
    IF \E b \in 1..Len(results) : results[b].kind = "panic" THEN "panic"
    ELSE IF \E b \in 1..Len(results) : results[b].kind = "err" THEN "err"
    ELSE "ok"

RECURSIVE collect_faults(_, _, _)
collect_faults(results, b, n) ==
    IF b > Len(results) THEN <<>>
    ELSE SelectSeq([i \in 1..Len(results[b].faults) |->
                        (b - 1) * PostSectorsCount + results[b].faults[i]],
                   LAMBDA f : f < n)
         \o collect_faults(results, b + 1, n)

\* Lines 318-329 with the per-batch outputs collected in the opposite order.
generate_post_collected_reversed(post_config, challenge_seed, input_parts, fs, env) ==
    LET dynamic == [post_config |-> post_config, challenge_seed |-> challenge_seed,
                    input_parts |-> input_parts]
        fixed == generate_post_spread_input(dynamic)
        results == [b \in 1..Len(fixed) |->
                        generate_post_fixed_sectors_count(fixed[Len(fixed) + 1 - b], fs, env)]
        kind == dynamic_kind(results)
    IN  [kind |-> kind,
         proofs |-> IF kind = "ok" THEN [b \in 1..Len(results) |-> results[b].proof] ELSE <<>>,
         faults |-> IF kind = "ok" THEN collect_faults(results, 1, Len(input_parts)) ELSE <<>>,
         batches |-> [b \in 1..Len(fixed) |->
                        [processed |-> Processed(results, b),
                         faulted |-> \E i \in 1..Len(fixed[b].input_parts) :
                                        fixed[b].input_parts[i].access = NoAccess,
                         kind |-> results[b].kind,
                         proved |-> results[b].proved,
                         faults |-> results[b].faults]]]

\* generate_post / generate_post_dynamic (lines 64-74, 318-329).
generate_post(post_config, challenge_seed, input_parts, fs, env) ==
    LET dynamic == [post_config |-> post_config, challenge_seed |-> challenge_seed,
                    input_parts |-> input_parts]
        fixed == generate_post_spread_input(dynamic)
        results == [b \in 1..Len(fixed) |-> generate_post_fixed_sectors_count(fixed[b], fs, env)]
        kind == dynamic_kind(results)
    IN  [kind |-> kind,
         proofs |-> IF kind = "ok" THEN [b \in 1..Len(results) |-> results[b].proof] ELSE <<>>,
         faults |-> IF kind = "ok" THEN collect_faults(results, 1, Len(input_parts)) ELSE <<>>,
         batches |-> [b \in 1..Len(fixed) |->
                        [processed |-> Processed(results, b),
                         faulted |-> \E i \in 1..Len(fixed[b].input_parts) :
                                        fixed[b].input_parts[i].access = NoAccess,
                         kind |-> results[b].kind,
                         proved |-> results[b].proved,
                         faults |-> results[b].faults]]]

(***************************************************************************)
(* verify_post_fixed_sectors_count (safe.rs 400-459).                      *)
(***************************************************************************)
\* Lines 421-431: bytes_into_fr(comm_r).expects(...).
verify_post_commitment(comm_r) ==
    LET fr == bytes_into_fr(comm_r) IN IF fr.kind = "err" THEN Panic ELSE fr

\* Lines 441-448: &fixed.proof[0..num_post_proof_bytes]; the index panics on a
\* proof shorter than that.
verify_post_proof_slice(proof, num_post_proof_bytes) ==
    IF Len(proof) < num_post_proof_bytes THEN Panic
    ELSE Ok(SubSeq(proof, 1, num_post_proof_bytes))

VerifyResult(res) == [kind |-> res.kind, val |-> res.val]

\* Lines 403-408: the verifier's own copy of the masking.
verify_post_safe_challenge_seed(challenge_seed) ==
    [i \in 1..Fr32Len |-> IF i = Fr32Len THEN challenge_seed[i] % 64 ELSE challenge_seed[i]]

\* Lines 450-455: the requirements handed to VDFPostCompound::verify.
verify_post_requirements == NoRequirements

verify_post_fixed_sectors_count(fixed, env) ==
    LET seed == try_from_bytes(verify_post_safe_challenge_seed(fixed.challenge_seed))
        public_params == compound_setup(post_setup_params(fixed.post_config), NoPartitions)
        n == Len(fixed.comm_rs)
        commitments == [i \in 1..n |-> verify_post_commitment(fixed.comm_rs[i])]
        stmt == post_statement(seed.val, [i \in 1..n |-> commitments[i].val], fixed.faults)
        partitions == PoStProofPartitions(fixed.post_config)
        num_post_proof_bytes == SINGLE_PARTITION_PROOF_LEN * partitions
        slice == verify_post_proof_slice(fixed.proof, num_post_proof_bytes)
        proof == new_from_reader(partitions, slice.val)
    IN  IF env = "setup" THEN VerifyResult(Panic)
        ELSE IF \E i \in 1..n : commitments[i].kind = "panic" THEN VerifyResult(Panic)
        ELSE IF seed.kind = "err" THEN VerifyResult(Err)
        ELSE IF env = "vk" THEN VerifyResult(Err)
        ELSE IF slice.kind = "panic" THEN VerifyResult(Panic)
        ELSE IF proof.kind = "err" THEN VerifyResult(Err)
        ELSE VerifyResult(Ok(compound_verify(public_params, "vdf_post", stmt, proof.val,
                                             verify_post_requirements)))

\* verify_post / verify_post_dynamic (lines 78-92, 307-316); the collected
\* result is valid when every batch is.
verify_post(post_config, comm_rs, challenge_seed, proofs, faults, env) ==
    LET dynamic == [post_config |-> post_config, comm_rs |-> comm_rs,
                    challenge_seed |-> challenge_seed, proofs |-> proofs, faults |-> faults]
        fixed == verify_post_spread_input(dynamic)
        results == [b \in 1..Len(fixed.val) |-> verify_post_fixed_sectors_count(fixed.val[b], env)]
        kind == dynamic_kind(results)
    IN  IF fixed.kind = "err" THEN [kind |-> "err", is_valid |-> FALSE, batches |-> <<>>]
        ELSE [kind |-> kind,
              is_valid |-> kind = "ok" /\ \A b \in 1..Len(results) : results[b].val,
              batches |-> [b \in 1..Len(results) |->
                              [processed |-> Processed(results, b),
                               kind |-> results[b].kind, val |-> results[b].val]]]

(***************************************************************************)
(* PoSt calls.                                                             *)
(***************************************************************************)
Seed(low, top) == [i \in 1..Fr32Len |-> IF i = Fr32Len THEN top ELSE low]

\* Challenge seeds: two that differ only in bit 6 of the last byte, one that
\* differs in another byte, and one that is no field element.
ChallengeSeeds == {Seed(5, 1), Seed(5, 65), Seed(6, 1), Seed(255, 255)}

\* What a caller may pass for the sector sealed by call c: the sealed file
\* with its comm_r, no access (a faulted sector), a comm_r that is no field
\* element, or a commitment that is not the file's.
InputParts(c) ==
    { [access |-> OutPath(c), comm_r |-> seal[c].output.comm_r],
      [access |-> NoAccess, comm_r |-> seal[c].output.comm_r],
      [access |-> OutPath(c), comm_r |-> [i \in 1..Fr32Len |-> 255]],
      [access |-> OutPath(c), comm_r |-> seal[c].output.comm_d] }

SeqsUpTo(S, n) == UNION {[1..k -> S] : k \in 1..n}

PostGenEnvs == {"ok", "setup", "read", "params", "prove", "write"}
PostVerifyEnvs == {"ok", "setup", "vk"}

GeneratePostCall ==
    /\ client.op = "idle"
    /\ AllSealsDone
    /\ \E c \in SealCalls :
        /\ seal[c].outcome = "ok"
        /\ \E cfg \in PoStConfigs, seed \in {Seed(5, 1), Seed(255, 255)},
              parts \in SeqsUpTo(InputParts(c), MaxParts), env \in PostGenEnvs :
            /\ env # "ok" => (cfg.partitions = 1 /\ seed = Seed(5, 1) /\ Len(parts) = 2)
            /\ client' = [op |-> "generate_post", c |-> c, post_config |-> cfg,
                          challenge_seed |-> seed, input_parts |-> parts, env |-> env,
                          out |-> generate_post(cfg, seed, parts, files, env)]
    /\ UNCHANGED <<files, written, seal>>

\* The sector of call c, k times over, all readable.
ReadableParts(c, k) ==
    [i \in 1..k |-> [access |-> OutPath(c), comm_r |-> seal[c].output.comm_r]]

\* What verify_post is given for a proof generate_post returned: everything
\* as generated, or one of the inputs changed.
PostTamperings ==
    {"none", "proof_short", "proof_long", "proofs_missing", "comm_r_bad", "comm_r_other",
     "faults"}

tampered_proofs(proofs, t) ==
    IF t = "proof_short" THEN [proofs EXCEPT ![1] = SubSeq(@, 1, Len(@) - 1)]
    ELSE IF t = "proof_long" THEN [proofs EXCEPT ![1] = @ \o <<Junk>>]
    ELSE IF t = "proofs_missing" THEN Tail(proofs)
    ELSE proofs

tampered_comm_rs(comm_rs, t, other) ==
    IF t = "comm_r_bad" THEN [comm_rs EXCEPT ![1] = [i \in 1..Fr32Len |-> 255]]
    ELSE IF t = "comm_r_other" THEN [comm_rs EXCEPT ![1] = other]
    ELSE comm_rs

VerifyPostCall ==
    /\ client.op = "idle"
    /\ AllSealsDone
    /\ \E c \in SealCalls :
        /\ seal[c].outcome = "ok"
        /\ \E cfg \in PoStConfigs, gen_seed \in ChallengeSeeds, seed \in ChallengeSeeds,
              k \in 1..MaxParts, t \in PostTamperings, env \in PostVerifyEnvs :
            LET parts == ReadableParts(c, k)
                gen == generate_post(cfg, gen_seed, parts, files, "ok")
                comm_rs == tampered_comm_rs([i \in 1..k |-> parts[i].comm_r], t,
                                            seal[c].output.comm_d)
                proofs == tampered_proofs(gen.proofs, t)
                faults == IF t = "faults" THEN <<0>> ELSE gen.faults
            IN  /\ gen.kind = "ok"
                /\ (t # "none" \/ env # "ok") => seed = gen_seed
                /\ (t # "none" /\ env # "ok") => FALSE
                /\ client' = [op |-> "verify_post", c |-> c, post_config |-> cfg,
                              comm_rs |-> comm_rs, challenge_seed |-> seed,
                              proofs |-> proofs, faults |-> faults, env |-> env,
                              gen_seed |-> gen_seed, tampering |-> t,
                              out |-> verify_post(cfg, comm_rs, seed, proofs, faults, env)]
    /\ UNCHANGED <<files, written, seal>>

\* The caller takes the result.
ClientReturn ==
    /\ client.op # "idle"
    /\ client' = IdleClient
    /\ UNCHANGED <<files, written, seal>>

Next ==
    \/ \E c \in SealCalls : SealStep(c)
    \/ VerifySealCall
    \/ GetUnsealedRangeCall
    \/ GeneratePostCall
    \/ VerifyPostCall
    \/ ClientReturn

Spec == Init /\ [][Next]_vars

(***************************************************************************)
(* Properties.                                                             *)
(***************************************************************************)
Valid(verdict) == verdict.kind = "ok" /\ verdict.val

\* C1: seal never returns Ok(SealOutput) when its internal verify_seal call
\* yielded anything other than valid (an error or the boolean false).
C1_SealNeverReturnsRejectedProof ==
    \A c \in SealCalls :
        (seal[c].pc = "done" /\ seal[c].verdict.kind # "none" /\ ~Valid(seal[c].verdict))
            => seal[c].outcome # "ok"

\* C2: when a seal call has ended (Ok, Err or panic), the file at out_path is
\* retained exactly if replication and the flush after it succeeded; a
\* retained file is the complete replica of the staged sector.
RetainingStages == {"flush", "params", "write", "verify"}

C2_OutputRetainedIffFlushed ==
    \A c \in SealCalls :
        seal[c].pc = "done" =>
            /\ files[OutPath(c)].exists <=> seal[c].stage \in RetainingStages
            /\ files[OutPath(c)].exists =>
                files[OutPath(c)].bytes
                    = replicate(seal_replica_id(seal[c]),
                                set_len(files[InPath(c)].bytes, PaddedBytes)).val.replica

\* C2 witness: a call that failed after the flush (fetching the parameters)
\* and left its sealed output in place.
C2_Witness ==
    \E c \in SealCalls :
        /\ seal[c].pc = "done" /\ seal[c].outcome = "err" /\ seal[c].stage = "flush"
        /\ files[OutPath(c)].exists

\* C3: verify_seal given a commitment that does not canonically represent a
\* field element ends with an error at the conversion: it does not panic,
\* does not accept, and does not get to reading or verifying the proof.
MalformedCommitment ==
    \/ ~IsCanonical(client.comm_r)
    \/ ~IsCanonical(client.comm_d)
    \/ ~IsCanonical(client.comm_r_star)

C3_VerifySealTotalOnCommitments ==
    (client.op = "verify_seal" /\ MalformedCommitment)
        => (client.out.kind = "err" /\ client.out.reached = "fr")

\* C3 witness: verify_seal was called with the modulus itself as comm_d.
C3_Witness ==
    /\ client.op = "verify_seal"
    /\ client.comm_d = ModulusBytes
    /\ IsCanonical(client.comm_r) /\ IsCanonical(client.comm_r_star)
    /\ client.out.kind = "err"

\* The verify_seal call in flight was given exactly what seal call c returned,
\* with the ids and the config of that call.
AsSealed ==
    /\ client.porep_config = seal[client.c].porep_config
    /\ client.prover_id = seal[client.c].prover_id
    /\ client.sector_id = seal[client.c].sector_id
    /\ client.proof = seal[client.c].output.proof

SameCommitments ==
    /\ client.comm_r = seal[client.c].output.comm_r
    /\ client.comm_d = seal[client.c].output.comm_d
    /\ client.comm_r_star = seal[client.c].output.comm_r_star

RotatedCommitments ==
    /\ client.comm_r = seal[client.c].output.comm_d
    /\ client.comm_d = seal[client.c].output.comm_r_star
    /\ client.comm_r_star = seal[client.c].output.comm_r

Accepted == client.out.kind = "ok" /\ client.out.is_valid

\* C4: verify_post given a comm_r that does not canonically represent a field
\* element reports a failure (an error or is_valid = false) and does not
\* panic; a challenge seed that is no field element causes no panic either.
C4_VerifyPostTotalOnFieldInputs ==
    client.op = "verify_post" =>
        /\ (\E i \in 1..Len(client.comm_rs) : ~IsCanonical(client.comm_rs[i]))
                => (client.out.kind # "panic" /\ ~Accepted)
        /\ (/\ ~IsCanonical(client.challenge_seed)
            /\ client.tampering = "none" /\ client.env = "ok"
            /\ PoStProofPartitions(client.post_config) = 1)
                => client.out.kind # "panic"

\* C5: a proof whose length is not SINGLE_PARTITION_PROOF_LEN times the
\* configured partitions makes verify_seal and verify_post report a failure:
\* neither accepts it and neither panics.
C5_MalformedProofFails ==
    /\ (/\ client.op = "verify_seal"
        /\ Len(client.proof)
            # SINGLE_PARTITION_PROOF_LEN * PoRepProofPartitions(client.porep_config))
            => ~Valid(client.out)
    /\ (/\ client.op = "verify_post"
        /\ client.env = "ok"
        /\ \A i \in 1..Len(client.comm_rs) : IsCanonical(client.comm_rs[i])
        /\ \E b \in 1..Len(client.proofs) :
                Len(client.proofs[b])
                    # SINGLE_PARTITION_PROOF_LEN * PoStProofPartitions(client.post_config))
            => (client.out.kind # "panic" /\ ~Accepted)

\* C6: whenever seal returned Ok(SealOutput), verify_seal with the same
\* config, prover id, sector id and exactly those commitments and proof
\* returns true.
C6_SealOutputVerifies ==
    (client.op = "verify_seal" /\ AsSealed /\ SameCommitments /\ client.env = GoodEnv)
        => Valid(client.out)

\* C7: verify_seal returns true only if each commitment argument is the value
\* seal produced for that role; with the commitments of a seal output rotated
\* (comm_d as comm_r, comm_r_star as comm_d, comm_r as comm_r_star) and
\* everything else as sealed it returns Ok(false).
C7_RotatedCommitmentsRejected ==
    client.op = "verify_seal" =>
        /\ Valid(client.out) => SameCommitments
        /\ (AsSealed /\ RotatedCommitments /\ client.env = GoodEnv)
                => (client.out.kind = "ok" /\ ~client.out.val
                    /\ client.out.reached = "verify")

\* C7 witness: the rotated call of tests::seal_verify_aux on a sound proof was
\* made and returned Ok(false).
C7_Witness ==
    /\ client.op = "verify_seal"
    /\ AsSealed /\ RotatedCommitments /\ client.env = GoodEnv
    /\ Valid(seal[client.c].verdict)
    /\ client.out.kind = "ok" /\ ~client.out.val

\* C8: for a sector sealed from written bytes W, get_unsealed_range with the
\* ids of the seal call and offset + length <= Len(W) writes exactly
\* W[offset .. offset + length) and returns length; the whole unpadded
\* capacity from offset 0 returns the unpadded capacity.
SealedFromWritten(c) ==
    /\ written[c].known
    /\ seal[c].pc = "done" /\ seal[c].success
    /\ files[OutPath(c)].exists

C10_PostBoundToSeed ==
    (client.op = "verify_post" /\ client.tampering = "none" /\ client.env = "ok")
        => /\ client.challenge_seed = client.gen_seed => Accepted
           /\ client.challenge_seed # client.gen_seed => ~Accepted

\* The b-th batch of a list, written out: PostSectorsCount consecutive
\* elements in input order, the last element repeated to fill the last batch.
BatchOf(xs, b) ==
    [j \in 1..PostSectorsCount |-> xs[Min((b - 1) * PostSectorsCount + j, Len(xs))]]

C12_ProofLengthMatchesPartitions ==
    /\ \A c \in SealCalls :
            seal[c].outcome = "ok" =>
                Len(seal[c].output.proof)
                    = SINGLE_PARTITION_PROOF_LEN * PoRepProofPartitions(seal[c].porep_config)
    /\ (client.op = "generate_post" /\ client.out.kind = "ok") =>
            \A b \in 1..Len(client.out.proofs) :
                Len(client.out.proofs[b])
                    = SINGLE_PARTITION_PROOF_LEN * PoStProofPartitions(client.post_config)

(***************************************************************************)
(* Concurrent sealing: tests::concurrent_seal_unsealed_range_roundtrip_test *)
(* runs seal calls in threads, each on files of its own.  The steps of the *)
(* calls interleave freely.                                                *)
(***************************************************************************)
ConcurrentCalls == {1, 2}

InitConcurrent ==
    /\ \E st \in [ConcurrentCalls -> StagedInputs] :
        /\ files = [p \in {InPath(c) : c \in ConcurrentCalls}
                            \cup {OutPath(c) : c \in ConcurrentCalls} |->
                        IF p[1] = "staged" THEN st[p[2]].file ELSE NoFile]
        /\ written = [c \in ConcurrentCalls |-> [known |-> st[c].known, w |-> st[c].w]]
    /\ seal = [c \in ConcurrentCalls |-> IdleSeal]
    /\ client = IdleClient

NextConcurrent == \E c \in ConcurrentCalls : SealStep(c)

SpecConcurrent == InitConcurrent /\ [][NextConcurrent]_vars

\* A step of one seal call changes no file of another call.
SealStepsKeepToOwnFiles ==
    [][\A c \in DOMAIN seal :
            seal'[c] = seal[c] =>
                /\ files'[InPath(c)] = files[InPath(c)]
                /\ files'[OutPath(c)] = files[OutPath(c)]]_vars

\* The sealed file of an ended call is the replica of that call's own staged
\* sector under that call's own replica id, and the staged file is as written.
OwnReplica(c) ==
    /\ files[OutPath(c)].exists
    /\ files[OutPath(c)].bytes
            = replicate(seal_replica_id(seal[c]),
                        set_len(files[InPath(c)].bytes, PaddedBytes)).val.replica
    /\ written[c].known => files[InPath(c)].bytes = write_and_preprocess(written[c].w)

UnsealsToOwnBytes(c) ==
    written[c].known =>
        LET r == get_unsealed_range(seal[c].porep_config, files[OutPath(c)],
                                    seal[c].prover_id, seal[c].sector_id,
                                    0, Len(written[c].w), "ok")
        IN  r.kind = "ok" /\ r.output_file.bytes = written[c].w

PassesVerifySeal(c) ==
    Valid(verify_seal(seal[c].porep_config, seal[c].output.comm_r, seal[c].output.comm_d,
                      seal[c].output.comm_r_star, seal[c].prover_id, seal[c].sector_id,
                      seal[c].output.proof, GoodEnv))

ConcurrentSealsKeepApart ==
    \A c \in DOMAIN seal :
        (seal[c].pc = "done" /\ seal[c].outcome = "ok") =>
            (OwnReplica(c) /\ UnsealsToOwnBytes(c))

\* C13: with seal calls interleaved on files of their own, whatever the other
\* calls are doing, the result of every call that returned Ok is the replica
\* of its own sector, passes verify_seal and unseals to its own written bytes.
C13_ConcurrentSealsIndependent ==
    \A c \in DOMAIN seal :
        (seal[c].pc = "done" /\ seal[c].outcome = "ok") =>
            (OwnReplica(c) /\ PassesVerifySeal(c) /\ UnsealsToOwnBytes(c))

\* The seal call ended at a storage step: copy / open / set_len (nothing
\* completed yet), the mapping (after the copy) or the flush (after replicate).
SealStorageFailure(c) ==
    /\ seal[c].pc = "done"
    /\ seal[c].outcome # "ok"
    /\ seal[c].stage \in {"none", "copy", "replicate"}

\* C14: a storage failure (a file that cannot be opened, read, resized, mapped
\* or flushed) in seal, get_unsealed_range or generate_post is returned to
\* the caller as Err: the call does not panic.
C14_StorageFailuresReturnErr ==
    /\ \A c \in DOMAIN seal : SealStorageFailure(c) => seal[c].outcome = "err"
    /\ (client.op = "get_unsealed_range" /\ client.io # "ok") => client.out.kind = "err"
    /\ (/\ client.op = "generate_post"
        /\ client.env = "read"
        /\ \A i \in 1..Len(client.input_parts) :
                /\ client.input_parts[i].access # NoAccess
                /\ IsCanonical(client.input_parts[i].comm_r))
            => client.out.kind = "err"

\* C15: every verification entry point hands the compound verifier a
\* minimum-challenge requirement: verify_seal one of at least
\* POREP_MINIMUM_CHALLENGES, which every proof it accepts meets, and
\* verify_post, for each batch it verifies, one that asks for some minimum.
C15_MinimumChallengesEnforced ==
    /\ (client.op = "verify_seal" /\ client.out.reached = "verify") =>
            /\ verify_seal_requirements >= POREP_MINIMUM_CHALLENGES
            /\ Valid(client.out) =>
                    setup_params(PoRepProofPartitions(client.porep_config)).challenges
                        * PoRepProofPartitions(client.porep_config)
                            >= POREP_MINIMUM_CHALLENGES
    /\ (/\ client.op = "verify_post"
        /\ \E b \in 1..Len(client.out.batches) :
                client.out.batches[b].processed /\ client.out.batches[b].kind = "ok")
            => verify_post_requirements # NoRequirements

(***************************************************************************)
(* The canonicalisation of the challenge seed on its own: both drivers are *)
(* given a seed and derive the field element of the public inputs          *)
(* (lines 353-364 and 403-437).                                            *)
(***************************************************************************)
\* Seeds: every value of the most significant byte, over a few values of
\* the other bytes.
SeedLowBytes == {0, 5, 255}
AllSeeds == {Seed(low, top) : low \in SeedLowBytes, top \in 0..255}

InitSeed ==
    /\ files = [p \in Paths |-> NoFile]
    /\ written = [c \in SealCalls |-> [known |-> FALSE, w |-> <<>>]]
    /\ seal = [c \in SealCalls |-> IdleSeal]
    /\ client = IdleClient

CanonicaliseSeed ==
    /\ client.op = "idle"
    /\ \E seed \in AllSeeds :
        client' = [op |-> "challenge_seed", challenge_seed |-> seed,
                   generate_safe |-> safe_challenge_seed(seed),
                   generate_fr |-> try_from_bytes(safe_challenge_seed(seed)),
                   verify_safe |-> verify_post_safe_challenge_seed(seed),
                   verify_fr |-> try_from_bytes(verify_post_safe_challenge_seed(seed))]
    /\ UNCHANGED <<files, written, seal>>

NextSeed ==
    \/ CanonicaliseSeed
    \/ ClientReturn

SpecSeed == InitSeed /\ [][NextSeed]_vars

\* C16: for every seed, generate_post and verify_post derive the same safe
\* seed: the seed with the two highest bits of its last byte cleared and the
\* other bytes unchanged; read little-endian it is below 2^(bits - 2), hence
\* below the modulus, and its conversion to a field element succeeds.
C16_SeedCanonicalisation ==
    client.op = "challenge_seed" =>
        /\ client.generate_safe = client.verify_safe
        /\ \A i \in 1..FrSafeLen : client.generate_safe[i] = client.challenge_seed[i]
        /\ client.generate_safe[Fr32Len] = client.challenge_seed[Fr32Len] % 64
        /\ le_value(client.generate_safe) < 2 ^ (8 * Fr32Len - 2)
        /\ le_value(client.generate_safe) < FrModulus
        /\ client.generate_fr.kind = "ok" /\ client.verify_fr.kind = "ok"
        /\ client.generate_fr.val = le_value(client.generate_safe)
        /\ client.generate_fr = client.verify_fr

\* C16 witness: a seed with both high bits set, itself no field element, was
\* canonicalised and converted.
C16_Witness ==
    /\ client.op = "challenge_seed"
    /\ client.challenge_seed[Fr32Len] >= 192
    /\ ~IsCanonical(client.challenge_seed)
    /\ client.generate_safe # client.challenge_seed
    /\ client.generate_fr.kind = "ok"

\* The file at in_path is what was staged before the call.
InPathAsStaged(c) ==
    \E st \in StagedInputs :
        /\ st.known = written[c].known
        /\ st.w = written[c].w
        /\ files[InPath(c)] = st.file

\* C17: from the copy up to replication the output file, which seal maps as
\* the replica buffer, is exactly the padded sector size long: the bytes of
\* the input file, extended with zero bytes or cut to the sector size, with no
\* error reported for either; the file at in_path is never modified.
C17_ReplicaBufferIsSectorSized ==
    \A c \in DOMAIN seal :
        /\ InPathAsStaged(c)
        /\ seal[c].pc \in {"map", "setup", "replicate"} =>
            /\ files[OutPath(c)].exists
            /\ Len(files[OutPath(c)].bytes) = PaddedBytes
            /\ \A i \in 1..PaddedBytes :
                    files[OutPath(c)].bytes[i]
                        = IF i <= Len(files[InPath(c)].bytes)
                          THEN files[InPath(c)].bytes[i] ELSE 0

\* C17 witness: a call reached replication on an input longer than the
\* sector, its buffer cut to the sector size.
C17_Witness ==
    \E c \in DOMAIN seal :
        /\ seal[c].pc = "replicate"
        /\ Len(files[InPath(c)].bytes) > PaddedBytes
        /\ Len(files[OutPath(c)].bytes) = PaddedBytes

====
